---- MODULE Spec2Model ----
(***************************************************************************)
(* Model of src/main.rs: the worker threads that run Simulation::do_random *)
(* in wall-clock intervals and send their batches over an unbounded        *)
(* channel, and the aggregator loop of main that groups num_threads        *)
(* batches into a round and writes the round to results/<num_iters>.bin.   *)
(*                                                                         *)
(* Two specifications share the module.  Spec is the whole pipeline, with  *)
(* do_random taken as one step of a worker.  SpecSim is one worker thread  *)
(* with the control loop of do_random taken tick by tick, under the real   *)
(* step cap.  The physics engine (rocketsim) is external: what it reports  *)
(* and whether it rejects a setter are inputs.                             *)
(*                                                                         *)
(* A panic unwinds the panicking thread only (the default Rust profile):   *)
(* a panic in a spawned worker ends that worker and drops its sender, a    *)
(* panic in main ends the process.                                         *)
(***************************************************************************)
EXTENDS Integers, Sequences, FiniteSets, TLC

\* ------------------------------------------------------------------ bounds
MaxThreads == 2      \* largest thread::available_parallelism() explored
MaxRecords == 2      \* most records alive (gathered, in flight or received) in one run
MaxSends == 4        \* most batches sent over the channel in one run
MaxInitIndex == 1    \* results/0.bin .. results/<MaxInitIndex>.bin may pre-exist
MaxSimBatch == 2     \* SpecSim: most records the worker gathers in one interval
MaxEncRecords == 3   \* SpecEnc: most records in the round that is encoded

\* ------------------------------------------------------- program constants
TICK_RATE == 120                 \* Arena::new(.., 120.) and `/ 120.`
STEP_CAP == TICK_RATE * 30       \* `num_steps > 120 * 30`

\* ------------------------------------------------------------------- state
VARIABLES
    \* --- pipeline (Spec) ---
    num_threads,      \* thread::available_parallelism()
    worker,           \* worker[w]: "running" or "panicked" (thread ended)
    results,          \* results[w]: the batch worker w is gathering
    chan,             \* the unbounded channel: batches in flight, FIFO
    aggregator,       \* "recv" (for results in rx), "aborted" (unwrap panic), "done"
    num_iters,        \* index of the next output file
    current_threads,  \* batches received since the last round closed
    current_results,  \* the round accumulator
    dir,              \* entries of the results/ directory
    \* --- history of the pipeline (not program state) ---
    startCount,       \* fs::read_dir(OUT_FOLDER).count() at startup
    received,         \* every batch received so far, in receive order
    written,          \* every file the aggregator wrote, in write order
    \* --- one worker, tick by tick (SpecSim) ---
    simPc,            \* "interval" (worker's while loop), "control" (do_random's loop), "panicked"
    convAt,           \* engine: first tick at which the angle reads < 0.1 (Never if none)
    ctrlFailAt,       \* engine: tick at which set_car_controls is rejected (Never if none)
    num_steps,        \* do_random's step counter
    simRet,           \* what the last do_random call returned
    simResults,       \* the batch of this worker
    \* --- history of that worker (not program state) ---
    simEnd,           \* how the last call ended: "start", "running", "converged", "cap", "panic"
    simBefore,        \* the batch as it was when the last call started
    \* --- the record encoder on its own (SpecEnc) ---
    encRound,         \* current_results: the records to encode
    encBytes,         \* bytes: the uncompressed buffer
    encPc,            \* "round" (before the encoding loop), "encoded" (after it)
    \* --- the control law on its own (SpecPd) ---
    pdAngles,         \* target_angles of default_pd: <<pitch, yaw, roll>>
    pdAngVel,         \* local_ang_vel of default_pd: <<x, y, z>>
    pdControls,       \* the CarControls default_pd returns
    pdPc              \* "call", "returned"

pipeVars == <<num_threads, worker, results, chan, aggregator, num_iters,
              current_threads, current_results, dir, startCount, received, written>>
simVars == <<simPc, convAt, ctrlFailAt, num_steps, simRet, simResults, simEnd, simBefore>>
encVars == <<encRound, encBytes, encPc>>
pdVars == <<pdAngles, pdAngVel, pdControls, pdPc>>
auxVars == <<encVars, pdVars>>
vars == <<pipeVars, simVars, auxVars>>

\* ------------------------------------------------------------------ values
Never == -1

\* Seconds as a fraction num/den.  The f32 quotient n / 120. is exact enough
\* for n <= STEP_CAP + 2 that order and equality of the quotients are those
\* of the fractions (3600 / 120 is exactly 30).
Seconds(n, d) == [num |-> n, den |-> d]

\* variant: the convergence test is counted as a tick
ElapsedTimeCountsCheck(n) == Seconds(n + 1, TICK_RATE)

\* `let time = num_steps as f32 / 120.;`
ElapsedTime(n) == Seconds(n, TICK_RATE)

\* struct SimResult.  initial_angular_velocity and relative_target are
\* captured when the scenario is sampled and are not read by any control
\* flow; they are left out of the record.
SimResult(t) == [time |-> t]

\* Option<SimResult>
None == <<>>
Some(r) == <<r>>

\* Directory entries: <<"bin", i>> is results/<i>.bin, <<"other", i>> is an
\* entry with any other name.
BinEntry(i) == <<"bin", i>>
InitEntries == {BinEntry(i) : i \in 0..MaxInitIndex} \cup {<<"other", 0>>}

Workers == 1..num_threads

\* Tick counts do_random hands to the pipeline in Spec (a sample of the
\* values SpecSim shows it can return).
ResultTicks == {0, STEP_CAP + 1}

RECURSIVE Concat(_)
Concat(batches) ==
    IF batches = <<>> THEN <<>> ELSE Head(batches) \o Concat(Tail(batches))

\* Zero as a value of the control law's arithmetic (defined with it below).
PdZero == [n |-> 0, d |-> 1]

\* The encoder and the control law are not running.
AuxFrozen ==
    /\ encRound = <<>>
    /\ encBytes = <<>>
    /\ encPc = "round"
    /\ pdAngles = <<PdZero, PdZero, PdZero>>
    /\ pdAngVel = <<PdZero, PdZero, PdZero>>
    /\ pdControls = <<PdZero, PdZero, PdZero>>
    /\ pdPc = "call"

\* ---------------------------------------------------------------- pipeline
SimFrozen ==
    /\ simPc = "interval"
    /\ convAt = Never
    /\ ctrlFailAt = Never
    /\ num_steps = 0
    /\ simRet = None
    /\ simResults = <<>>
    /\ simEnd = "start"
    /\ simBefore = <<>>

\* main up to `let mut current_results = Vec::new();`
Init ==
    /\ num_threads \in 1..MaxThreads
    /\ worker = [w \in 1..num_threads |-> "running"]
    /\ results = [w \in 1..num_threads |-> <<>>]
    /\ chan = <<>>
    /\ aggregator = "recv"
    /\ dir \in SUBSET InitEntries
    /\ num_iters = Cardinality(dir)
    /\ startCount = Cardinality(dir)
    /\ current_threads = 0
    /\ current_results = <<>>
    /\ received = <<>>
    /\ written = <<>>
    /\ SimFrozen
    /\ AuxFrozen

ProcessAlive == aggregator = "recv"

RECURSIVE SumLen(_)
SumLen(msgs) == IF msgs = <<>> THEN 0 ELSE Len(Head(msgs).results) + SumLen(Tail(msgs))

RECURSIVE Gathered(_)
Gathered(ws) ==
    IF ws = {} THEN 0
    ELSE LET w == CHOOSE x \in ws : TRUE IN Len(results[w]) + Gathered(ws \ {w})

\* Records gathered by the workers, in flight and received (bounds the run).
Produced == Gathered(Workers) + SumLen(chan) + SumLen(received)

\* Worker w: one pass of `while interval_start_time.elapsed() < INTERVAL_TIME`
\* in which do_random returns Some(result): the result is pushed.
WorkerPush(w) ==
    /\ ProcessAlive
    /\ worker[w] = "running"
    /\ Produced < MaxRecords
    /\ \E n \in ResultTicks :
          results' = [results EXCEPT ![w] = Append(@, SimResult(ElapsedTime(n)))]
    /\ UNCHANGED <<num_threads, worker, chan, aggregator, num_iters, current_threads,
                   current_results, dir, startCount, received, written>>
    /\ UNCHANGED <<simVars, auxVars>>

\* ... in which do_random returns None: nothing is pushed.
WorkerDrop(w) ==
    /\ ProcessAlive
    /\ worker[w] = "running"
    /\ UNCHANGED pipeVars
    /\ UNCHANGED <<simVars, auxVars>>

\* ... in which set_car or set_car_controls returns Err: unwrap panics, the
\* thread unwinds, its batch and its clone of tx are dropped.
WorkerPanic(w) ==
    /\ ProcessAlive
    /\ worker[w] = "running"
    /\ worker' = [worker EXCEPT ![w] = "panicked"]
    /\ results' = [results EXCEPT ![w] = <<>>]
    /\ UNCHANGED <<num_threads, chan, aggregator, num_iters, current_threads,
                   current_results, dir, startCount, received, written>>
    /\ UNCHANGED <<simVars, auxVars>>

\* variant: a rendezvous-like channel, bounded(1)
ChannelHasRoomBounded(c) == Len(c) < 1

\* `unbounded()`: a send finds room whatever is pending
ChannelHasRoom(c) == Len(c) >= 0

\* Worker w: the interval has expired; tx.send(results) and a new batch.
WorkerSend(w) ==
    /\ ProcessAlive
    /\ worker[w] = "running"
    /\ Len(received) + Len(chan) < MaxSends
    /\ ChannelHasRoom(chan)
    /\ chan' = Append(chan, [from |-> w, results |-> results[w]])
    /\ results' = [results EXCEPT ![w] = <<>>]
    /\ UNCHANGED <<num_threads, worker, aggregator, num_iters, current_threads,
                   current_results, dir, startCount, received, written>>
    /\ UNCHANGED <<simVars, auxVars>>

\* variant: the round closes one batch late
RoundFullLate(ct) == ct > num_threads

\* `current_threads == num_threads` after the increment
RoundFull(ct) == ct = num_threads

\* variant: the accumulator is not cleared
NotCleared(acc) == acc

\* `current_results.clear()`
Cleared(acc) == <<>>

\* variant: the index is not incremented
NextIndexStuck(i) == i

\* `num_iters += 1`
NextIndex(i) == i + 1

\* variant: a batch without records is not counted
CountedIfNonEmpty(ct, batch) == IF batch = <<>> THEN ct ELSE ct + 1

\* `current_threads += 1`
Counted(ct, batch) == ct + 1

\* variant: the batch replaces the accumulator
ExtendedReplacing(acc, batch) == batch

\* `current_results.extend(results)`
Extended(acc, batch) == acc \o batch

\* variant: the Err of the file operations is ignored and the loop goes on
AfterIoErrIgnored == "recv"

\* `.unwrap()` on the Err of File::create, copy_encode or flush, in main
AfterIoErr == "aborted"

\* variant: main keeps its own sender
LiveSendersWithMain == {w \in Workers : worker[w] = "running"} \cup {0}

\* Senders still alive: the clones moved into the running workers
\* (main's own tx is dropped by `drop(tx)`).
LiveSenders == {w \in Workers : worker[w] = "running"}

\* variant: the unfinished round is flushed when the loop ends
LoopEndFlushes(files, acc, idx) ==
    IF acc # <<>> THEN Append(files, [index |-> idx, records |-> acc]) ELSE files

\* after `for results in rx { .. }` main returns: nothing more is written
LoopEnd(files, acc, idx) == files

\* The aggregator: one iteration of `for results in rx`, all I/O succeeding.
Receive ==
    /\ aggregator = "recv"
    /\ chan # <<>>
    /\ LET msg == Head(chan)
           ct == Counted(current_threads, msg.results)
           acc == Extended(current_results, msg.results)
       IN  /\ chan' = Tail(chan)
           /\ received' = Append(received, msg)
           /\ IF RoundFull(ct)
              THEN /\ current_threads' = 0
                   /\ num_iters' = NextIndex(num_iters)
                   \* File::create creates the entry or truncates an existing one
                   /\ dir' = dir \cup {BinEntry(num_iters)}
                   /\ written' = Append(written, [index |-> num_iters, records |-> acc])
                   /\ current_results' = Cleared(acc)
              ELSE /\ current_threads' = ct
                   /\ current_results' = acc
                   /\ UNCHANGED <<num_iters, dir, written>>
    /\ UNCHANGED <<num_threads, worker, results, aggregator, startCount>>
    /\ UNCHANGED <<simVars, auxVars>>

\* The aggregator: the iteration that closes a round, with File::create,
\* copy_encode or flush returning Err: unwrap panics in main and the process
\* ends.  created = FALSE: File::create failed; TRUE: the file was created
\* (or truncated) and the write failed.
ReceiveIoFail ==
    /\ aggregator = "recv"
    /\ chan # <<>>
    /\ RoundFull(Counted(current_threads, Head(chan).results))
    /\ \E created \in BOOLEAN :
          dir' = IF created THEN dir \cup {BinEntry(num_iters)} ELSE dir
    /\ chan' = Tail(chan)
    /\ received' = Append(received, Head(chan))
    /\ current_threads' = 0
    /\ num_iters' = NextIndex(num_iters)
    /\ current_results' = Extended(current_results, Head(chan).results)
    /\ aggregator' = AfterIoErr
    /\ UNCHANGED <<num_threads, worker, results, startCount, written>>
    /\ UNCHANGED <<simVars, auxVars>>

\* The aggregator: every sender is dropped and the channel is empty; the
\* `for` loop ends and main returns.
Disconnected ==
    /\ aggregator = "recv"
    /\ chan = <<>>
    /\ LiveSenders = {}
    /\ aggregator' = "done"
    /\ written' = LoopEnd(written, current_results, num_iters)
    /\ UNCHANGED <<num_threads, worker, results, chan, num_iters, current_threads,
                   current_results, dir, startCount, received>>
    /\ UNCHANGED <<simVars, auxVars>>

Next ==
    \/ \E w \in Workers : WorkerPush(w)
    \/ \E w \in Workers : WorkerDrop(w)
    \/ \E w \in Workers : WorkerPanic(w)
    \/ \E w \in Workers : WorkerSend(w)
    \/ Receive
    \/ ReceiveIoFail
    \/ Disconnected

Spec == Init /\ [][Next]_vars

\* The pipeline with every worker running and every file operation
\* succeeding, under fair scheduling: the aggregator thread is not starved
\* while a batch is pending, and a worker's wall-clock interval expires.
NextRunning ==
    \/ \E w \in Workers : WorkerPush(w)
    \/ \E w \in Workers : WorkerDrop(w)
    \/ \E w \in Workers : WorkerSend(w)
    \/ Receive

\* A first run: `fs::create_dir_all(OUT_FOLDER)` has just created results/.
InitFirstRun == Init /\ dir = {}

SpecFair ==
    InitFirstRun /\ [][NextRunning]_vars
         /\ WF_vars(Receive)
         /\ \A w \in 1..MaxThreads : WF_vars(w \in Workers /\ WorkerSend(w))

\* ------------------------------------------------- one worker, tick by tick
PipeFrozen ==
    /\ num_threads = 1
    /\ worker = [w \in {1} |-> "running"]
    /\ results = [w \in {1} |-> <<>>]
    /\ chan = <<>>
    /\ aggregator = "recv"
    /\ dir = {}
    /\ num_iters = 0
    /\ startCount = 0
    /\ current_threads = 0
    /\ current_results = <<>>
    /\ received = <<>>
    /\ written = <<>>

\* Engine behaviours explored for one scenario: the tick at which the
\* orientation error first reads below 0.1 rad, and the tick at which the
\* engine rejects the controls.
ConvTicks == {0, 1, STEP_CAP, STEP_CAP + 1, STEP_CAP + 2, Never}
FailTicks == {Never, 0, 1}

\* thread closure up to `let interval_start_time = Instant::now();`
SimInit ==
    /\ PipeFrozen
    /\ AuxFrozen
    /\ simPc = "interval"
    /\ convAt = Never
    /\ ctrlFailAt = Never
    /\ num_steps = 0
    /\ simRet = None
    /\ simResults = <<>>
    /\ simEnd = "start"
    /\ simBefore = <<>>

\* `let mut num_steps = 0;`
InitialSteps == 0

\* `angle < 0.1` for the car state the engine returns after t steps
AngleBelow(t) == convAt # Never /\ t >= convAt

\* variant: the cap is tested one step late
CapExceededLate(n) == n > STEP_CAP + 1

\* `num_steps > 120 * 30`
CapExceeded(n) == n > STEP_CAP

\* variant: the cap breaks out of the loop instead of returning
BreakLoopOrCap(n) == AngleBelow(n) \/ CapExceeded(n)

\* `if angle < 0.1 { break; }`
BreakLoop(n) == AngleBelow(n)

\* `Some(SimResult { .., time })` after the loop
ConvergedReturn(n) == Some(SimResult(ElapsedTime(n)))

\* variant: the cap returns the record of the unfinished scenario
CapReturnPartial(n) == Some(SimResult(ElapsedTime(n)))

\* `println!("Failed to reach target?"); return None;`
CapReturn(n) == None

\* `if let Some(result) = simulation.do_random() { results.push(result); }`
PushResult(batch, ret) == IF ret = None THEN batch ELSE Append(batch, ret[1])

\* The interval has not expired: do_random is called; it samples a scenario,
\* set_car accepts the car state and the control loop is entered.
SimSample ==
    /\ simPc = "interval"
    /\ Len(simResults) < MaxSimBatch
    /\ convAt' \in ConvTicks
    /\ ctrlFailAt' \in FailTicks
    /\ num_steps' = InitialSteps
    /\ simPc' = "control"
    /\ simEnd' = "running"
    /\ simBefore' = simResults
    /\ UNCHANGED <<simRet, simResults>>
    /\ UNCHANGED <<pipeVars, auxVars>>

\* ... set_car returns Err: unwrap panics and the thread ends.
SimSetCarErr ==
    /\ simPc = "interval"
    /\ Len(simResults) < MaxSimBatch
    /\ simPc' = "panicked"
    /\ simEnd' = "panic"
    /\ simBefore' = simResults
    /\ UNCHANGED <<convAt, ctrlFailAt, num_steps, simRet, simResults>>
    /\ UNCHANGED <<pipeVars, auxVars>>

\* Control loop: the angle reads below 0.1; break, return the record, and the
\* worker pushes it.
SimConverge ==
    /\ simPc = "control"
    /\ BreakLoop(num_steps)
    /\ simRet' = ConvergedReturn(num_steps)
    /\ simResults' = PushResult(simResults, simRet')
    /\ simPc' = "interval"
    /\ simEnd' = "converged"
    /\ UNCHANGED <<convAt, ctrlFailAt, num_steps, simBefore>>
    /\ UNCHANGED <<pipeVars, auxVars>>

\* Control loop: not converged and the step counter is over the cap; return
\* None, and the worker pushes nothing.
SimStepCap ==
    /\ simPc = "control"
    /\ ~BreakLoop(num_steps)
    /\ CapExceeded(num_steps)
    /\ simRet' = CapReturn(num_steps)
    /\ simResults' = PushResult(simResults, simRet')
    /\ simPc' = "interval"
    /\ simEnd' = "cap"
    /\ UNCHANGED <<convAt, ctrlFailAt, num_steps, simBefore>>
    /\ UNCHANGED <<pipeVars, auxVars>>

\* variant: the counter is not incremented
SteppedStuck(n) == n

\* `num_steps += 1`
Stepped(n) == n + 1

\* Control loop: not converged, under the cap; the controls are accepted and
\* the arena steps once.
SimTick ==
    /\ simPc = "control"
    /\ ~BreakLoop(num_steps)
    /\ ~CapExceeded(num_steps)
    /\ ctrlFailAt # num_steps
    /\ num_steps' = Stepped(num_steps)
    /\ UNCHANGED <<simPc, convAt, ctrlFailAt, simRet, simResults, simEnd, simBefore>>
    /\ UNCHANGED <<pipeVars, auxVars>>

\* ... set_car_controls returns Err: unwrap panics and the thread ends.
SimCtrlErr ==
    /\ simPc = "control"
    /\ ~BreakLoop(num_steps)
    /\ ~CapExceeded(num_steps)
    /\ ctrlFailAt = num_steps
    /\ simPc' = "panicked"
    /\ simEnd' = "panic"
    /\ UNCHANGED <<convAt, ctrlFailAt, num_steps, simRet, simResults, simBefore>>
    /\ UNCHANGED <<pipeVars, auxVars>>

\* The interval has expired: the batch is sent and a new one started.
SimSend ==
    /\ simPc = "interval"
    /\ simResults' = <<>>
    /\ simEnd' = "start"
    /\ simBefore' = <<>>
    /\ UNCHANGED <<simPc, convAt, ctrlFailAt, num_steps, simRet>>
    /\ UNCHANGED <<pipeVars, auxVars>>

SimNext ==
    \/ SimSample
    \/ SimSetCarErr
    \/ SimConverge
    \/ SimStepCap
    \/ SimTick
    \/ SimCtrlErr
    \/ SimSend

SpecSim == SimInit /\ [][SimNext]_vars

\* The control loop has no suspension point: a worker thread inside do_random
\* keeps running its loop.
SpecSimFair ==
    SimInit /\ [][SimNext]_vars
            /\ WF_vars(SimConverge \/ SimStepCap \/ SimTick \/ SimCtrlErr)

\* ------------------------------------------------------- the record encoder
\* An f32 by its IEEE 754 binary32 fields: sign (1 bit), exponent (8 bits),
\* mantissa (23 bits).
F32(s, e, m) == [sign |-> s, exp |-> e, mant |-> m]

\* f32 values explored: 0.0, -0.0, 1.0, -5.5, 1/120, 30.0, a NaN, -f32::MAX
F32Zero == F32(0, 0, 0)
F32NegZero == F32(1, 0, 0)
F32One == F32(0, 127, 0)
F32NegFiveHalf == F32(1, 129, 3145728)
F32Tick == F32(0, 120, 559241)
F32Thirty == F32(0, 131, 7340032)
F32NaN == F32(0, 255, 4194304)
F32NegMax == F32(1, 254, 8388607)

\* The full struct SimResult as the encoder reads it.
FullResult(x, y, z, pitch, yaw, roll, t) ==
    [initial_angular_velocity |-> [x |-> x, y |-> y, z |-> z],
     relative_target |-> [pitch |-> pitch, yaw |-> yaw, roll |-> roll],
     time |-> t]

\* Records explored: seven different fields, all zero, and the special values.
EncSamples ==
    { FullResult(F32One, F32NegFiveHalf, F32Zero, F32NegZero, F32Thirty, F32NegMax, F32Tick),
      FullResult(F32Zero, F32Zero, F32Zero, F32Zero, F32Zero, F32Zero, F32Zero),
      FullResult(F32NaN, F32NegMax, F32Tick, F32One, F32NaN, F32NegFiveHalf, F32Thirty),
      FullResult(F32Tick, F32Tick, F32NegZero, F32Thirty, F32One, F32One, F32Zero) }

\* Rounds of at most n records.
Rounds(n) == UNION {[1..k -> EncSamples] : k \in 0..n}

\* variant: big-endian bytes
ToBeBytes(f) ==
    << f.sign * 128 + f.exp \div 2,
       (f.exp % 2) * 128 + f.mant \div 65536,
       (f.mant \div 256) % 256,
       f.mant % 256 >>

\* `f32::to_le_bytes`: the 32 bits sign|exp|mant, least significant byte first
ToLeBytes(f) ==
    << f.mant % 256,
       (f.mant \div 256) % 256,
       (f.exp % 2) * 128 + f.mant \div 65536,
       f.sign * 128 + f.exp \div 2 >>

\* The body of `for result in &current_results`: seven `bytes.extend`
EncodeResult(r) ==
    ToLeBytes(r.initial_angular_velocity.x)
    \o ToLeBytes(r.initial_angular_velocity.y)
    \o ToLeBytes(r.initial_angular_velocity.z)
    \o ToLeBytes(r.relative_target.pitch)
    \o ToLeBytes(r.relative_target.yaw)
    \o ToLeBytes(r.relative_target.roll)
    \o ToLeBytes(r.time)

\* `for result in &current_results { .. }` on an empty `bytes`
RECURSIVE EncodeRound(_)
EncodeRound(round) ==
    IF round = <<>> THEN <<>>
    ELSE EncodeResult(Head(round)) \o EncodeRound(Tail(round))

EncInit ==
    /\ PipeFrozen
    /\ SimFrozen
    /\ encRound \in Rounds(MaxEncRecords)
    /\ encBytes = <<>>
    /\ encPc = "round"
    /\ pdAngles = <<PdZero, PdZero, PdZero>>
    /\ pdAngVel = <<PdZero, PdZero, PdZero>>
    /\ pdControls = <<PdZero, PdZero, PdZero>>
    /\ pdPc = "call"

\* The encoding loop of the round-closing branch.
Encode ==
    /\ encPc = "round"
    /\ encBytes' = EncodeRound(encRound)
    /\ encPc' = "encoded"
    /\ UNCHANGED <<encRound, pdVars, pipeVars, simVars>>

SpecEnc == EncInit /\ [][Encode]_vars

\* ---------------------------------------------------------- the control law
\* An f32 by its value: n/d with d > 0 is the finite value n/d in lowest
\* terms, 1/0 is +inf, -1/0 is -inf and 0/0 is NaN.  Rounding is left out;
\* the values explored stay far from f32::MAX.
X(n, d) == [n |-> n, d |-> d]
PdNaN == X(0, 0)
PdInf == X(1, 0)
PdNegInf == X(-1, 0)

IsNaN(x) == x.d = 0 /\ x.n = 0
IsInf(x) == x.d = 0 /\ x.n # 0
Abs(n) == IF n < 0 THEN -n ELSE n
Sgn(n) == IF n < 0 THEN -1 ELSE IF n > 0 THEN 1 ELSE 0

RECURSIVE Gcd(_, _)
Gcd(a, b) == IF b = 0 THEN a ELSE Gcd(b, a % b)

Norm(n, d) == IF n = 0 THEN X(0, 1) ELSE LET g == Gcd(Abs(n), d) IN X(n \div g, d \div g)

\* f32 negation, addition, multiplication (IEEE 754 special cases)
FNeg(x) == X(-x.n, x.d)

FAdd(x, y) ==
    IF IsNaN(x) \/ IsNaN(y) THEN PdNaN
    ELSE IF IsInf(x) /\ IsInf(y) THEN (IF x.n = y.n THEN x ELSE PdNaN)
    ELSE IF IsInf(x) THEN x
    ELSE IF IsInf(y) THEN y
    ELSE Norm(x.n * y.d + y.n * x.d, x.d * y.d)

FMul(x, y) ==
    IF IsNaN(x) \/ IsNaN(y) THEN PdNaN
    ELSE IF IsInf(x) \/ IsInf(y)
         THEN (IF x.n = 0 \/ y.n = 0 THEN PdNaN ELSE X(Sgn(x.n) * Sgn(y.n), 0))
    ELSE Norm(x.n * y.n, x.d * y.d)

\* division by a finite constant c # 0
FDivBy(x, c) == FMul(x, IF c.n > 0 THEN X(c.d, c.n) ELSE X(-c.d, -c.n))

\* `f32::powi(3)`
Powi3(x) == FMul(FMul(x, x), x)

\* `<` on f32: false when an operand is NaN
FLess(x, y) ==
    IF IsNaN(x) \/ IsNaN(y) \/ x = y THEN FALSE
    ELSE IF IsInf(x) THEN x.n < 0
    ELSE IF IsInf(y) THEN y.n > 0
    ELSE x.n * y.d < y.n * x.d

\* `f32::clamp(min, max)`: min if self < min, max if self > max, else self
\* (so a NaN self is returned as it is)
Clamp(x, min, max) ==
    IF FLess(x, min) THEN min ELSE IF FLess(max, x) THEN max ELSE x

\* fn control_pd
control_pd(angle, rate) ==
    Clamp(FDivBy(Powi3(FMul(X(35, 1), FAdd(angle, rate))), X(10, 1)), X(-1, 1), X(1, 1))

\* fn default_pd from `let pitch = ..` on: target_angles stands for the three
\* atan2 results of its first statement; the result is <<pitch, yaw, roll>> of
\* the CarControls.
default_pd(target_angles, local_ang_vel) ==
    << control_pd(target_angles[1], FDivBy(local_ang_vel[2], X(17, 5))),
       control_pd(target_angles[2], FDivBy(FNeg(local_ang_vel[3]), X(5, 1))),
       control_pd(target_angles[3], FDivBy(local_ang_vel[1], X(31, 10))) >>

\* Inputs explored.  atan2 returns a value in [-pi, pi], or NaN for a NaN
\* argument.  The angular velocity comes from the engine; its components are
\* taken so that the scaled rates are small fractions.
PdAngleSamples == {X(0, 1), X(1, 70), X(-1, 35), X(3, 1), X(-3, 1), PdNaN}
PdAngVelX == {X(0, 1), X(31, 10), X(-31, 20), PdNaN}
PdAngVelY == {X(0, 1), X(17, 5), X(-17, 10), PdInf}
PdAngVelZ == {X(0, 1), X(5, 1), X(-5, 2), PdNegInf}

PdInit ==
    /\ PipeFrozen
    /\ SimFrozen
    /\ encRound = <<>>
    /\ encBytes = <<>>
    /\ encPc = "round"
    /\ pdAngles \in PdAngleSamples \X PdAngleSamples \X PdAngleSamples
    /\ pdAngVel \in PdAngVelX \X PdAngVelY \X PdAngVelZ
    /\ pdControls = <<PdZero, PdZero, PdZero>>
    /\ pdPc = "call"

\* One call of default_pd in the control loop.
PdCall ==
    /\ pdPc = "call"
    /\ pdControls' = default_pd(pdAngles, pdAngVel)
    /\ pdPc' = "returned"
    /\ UNCHANGED <<pdAngles, pdAngVel, encVars, pipeVars, simVars>>

SpecPd == PdInit /\ [][PdCall]_vars

\* ================================================================== claims
\* Batches that make up the k-th closed round, in receive order.
RoundBatches(k) ==
    [i \in 1..num_threads |-> received[(k - 1) * num_threads + i]]

RoundRecords(k) ==
    Concat([i \in 1..num_threads |-> RoundBatches(k)[i].results])

\* C1: every round written to a file is made of exactly one batch from every
\* worker: each worker sent exactly one of the num_threads batches of the round.
C1_OneBatchPerWorker ==
    \A k \in 1..Len(written) :
        \A w \in Workers :
            Cardinality({i \in 1..num_threads : RoundBatches(k)[i].from = w}) = 1

\* C2 as stated: every record do_random returns has an elapsed time above 0
\* and at most 30 seconds (n/120 with 1 <= n <= 3600).
C2_ElapsedInSpecRange ==
    simRet # None =>
        /\ simRet[1].time.num > 0
        /\ simRet[1].time.num <= 30 * simRet[1].time.den
        /\ simRet[1].time.den = TICK_RATE

\* 0 <= t <= 30 s + one tick period
InCodeRange(t) ==
    /\ t.den = TICK_RATE
    /\ 0 <= t.num
    /\ t.num <= 30 * t.den + 1

\* C2 amended: every record do_random returns, and every record in the
\* worker's batch, has an elapsed time n/120 s with 0 <= n <= 3601.
C2_ElapsedInCodeRange ==
    /\ simRet # None => InCodeRange(simRet[1].time)
    /\ \A i \in 1..Len(simResults) : InCodeRange(simResults[i].time)

C2_Witness ==
    simResults = <<SimResult(Seconds(0, 120)), SimResult(Seconds(3601, 120))>>

\* The scenario of the last call was already within 0.1 rad of the target
\* when the control loop started, and the call has returned.
AlignedAtStartReturned == convAt = 0 /\ simEnd = "converged"

\* C3 as stated: a scenario whose forward axis is within 0.1 rad of the target
\* when the control loop starts yields a record of one tick period (1/120 s).
C3_AlignedTakesOneTick ==
    AlignedAtStartReturned => simRet = Some(SimResult(Seconds(1, 120)))

\* C3 amended: such a scenario yields a record whose elapsed time is zero
\* (no tick is run: the convergence test comes before the first step).
C3_AlignedTakesNoTick ==
    AlignedAtStartReturned =>
        /\ simRet = Some(SimResult(Seconds(0, 120)))
        /\ num_steps = 0
        /\ simResults = Append(simBefore, SimResult(Seconds(0, 120)))

C3_Witness == AlignedAtStartReturned /\ simBefore # <<>>

\* C4: once a worker has panicked on a rejected engine setter, no batch is
\* sent, none is received and no file is written.
C4_SetterFailureStopsAll ==
    [][(\E w \in Workers : worker[w] = "panicked") =>
          /\ Len(chan') <= Len(chan)
          /\ received' = received
          /\ written' = written
          /\ dir' = dir]_vars

\* C5: whatever the directory held at startup, the number of entries of the
\* output directory is the startup count plus the number of completed rounds.
C5_EachRoundAddsOneFile ==
    aggregator = "recv" => Cardinality(dir) = startCount + Len(written)

\* C6: the file index starts at the startup entry count, changes only in the
\* receive that closes a round, by exactly +1, and the k-th round written
\* carries index startCount + k - 1.
C6_FileIndex ==
    /\ [](\A k \in 1..Len(written) : written[k].index = startCount + k - 1)
    /\ [](\A k \in 1..(Len(written) - 1) : written[k].index < written[k + 1].index)
    /\ [][/\ num_iters' # num_iters =>
               /\ num_iters' = num_iters + 1
               /\ Len(received') = Len(received) + 1
               /\ current_threads + 1 = num_threads
          /\ (Len(received') = Len(received) + 1 /\ current_threads + 1 = num_threads)
                => num_iters' = num_iters + 1]_vars

C6_Witness ==
    /\ Len(written) = 2
    /\ startCount > 0
    /\ num_iters = startCount + 2

\* C7: between receives, after b batches exactly b div num_threads files have
\* been written and the contributor counter is b mod num_threads, which lies
\* in 0..num_threads-1.
C7_RoundClosesAtCount ==
    aggregator = "recv" =>
        /\ Len(written) = Len(received) \div num_threads
        /\ current_threads = Len(received) % num_threads
        /\ current_threads \in 0..(num_threads - 1)

C7_Witness ==
    /\ aggregator = "recv"
    /\ num_threads = 2
    /\ Len(received) = 3
    /\ Len(written) = 1

\* C8: the accumulator is empty whenever a new round starts, and the file of
\* the k-th round holds exactly the records of the batches received as number
\* (k-1)*num_threads+1 .. k*num_threads, in receive order.
C8_RoundsDoNotLeak ==
    /\ (aggregator = "recv" /\ current_threads = 0) => current_results = <<>>
    /\ \A k \in 1..Len(written) : written[k].records = RoundRecords(k)

C8_Witness ==
    /\ num_threads = 2
    /\ Len(written) = 2
    /\ written[1].records # <<>>
    /\ written[2].records # <<>>
    /\ written[1].records # written[2].records

\* C9: when a scenario ends by the step cap, do_random returns None, the
\* worker's batch is what it was before the call, the worker is alive at the
\* head of its loop and can run the next scenario.
C9_CapDropsScenario ==
    simEnd = "cap" =>
        /\ simRet = None
        /\ simResults = simBefore
        /\ simPc = "interval"
        /\ ENABLED SimSample

C9_Witness == simEnd = "cap" /\ simBefore # <<>> /\ num_steps = STEP_CAP + 1

\* C10: a record is produced only by a call that ended with the orientation
\* error read below 0.1 rad at the tick it records; a call that ended by the
\* step cap produces none.
C10_RecordOnlyOnConvergence ==
    /\ simEnd = "converged" =>
          /\ simRet # None
          /\ simRet[1].time = Seconds(num_steps, 120)
          /\ convAt # Never
          /\ convAt <= num_steps
    /\ (simEnd \in {"running", "cap", "panic"}) => simResults = simBefore

C10_Witness ==
    simEnd = "converged" /\ simRet = Some(SimResult(Seconds(3600, 120))) /\ convAt = STEP_CAP

\* The worker can still send within the explored run.
WithinSends == Len(received) + Len(chan) < MaxSends

\* C11: a running worker whose interval has expired can always complete its
\* send and start a new batch, whatever is pending in the channel and
\* whatever the aggregator has done so far.
C11_SendNeverBlocked ==
    \A w \in Workers :
        (ProcessAlive /\ worker[w] = "running" /\ WithinSends) => ENABLED WorkerSend(w)

C11_Witness ==
    /\ ProcessAlive
    /\ Len(chan) >= 3
    /\ received = <<>>
    /\ \E w \in Workers : worker[w] = "running"

\* An index was consumed without a file being written: a round failed on I/O.
FailedRound == num_iters # startCount + Len(written)

\* C12: after an I/O failure in the round-closing iteration the process is
\* gone: nothing is written, created, received or sent any more, so the failed
\* round is neither retried nor carried over into a later file.
C12_IoFailureIsFatal ==
    /\ [](FailedRound => aggregator = "aborted")
    /\ [][FailedRound =>
            /\ written' = written
            /\ dir' = dir
            /\ received' = received
            /\ chan' = chan
            /\ results' = results
            /\ current_results' = current_results
            /\ num_iters' = num_iters]_vars

C12_Witness ==
    /\ aggregator = "aborted"
    /\ FailedRound
    /\ chan # <<>>
    /\ current_results # <<>>

\* Batches received after the last written round.
Leftover == SubSeq(received, Len(written) * num_threads + 1, Len(received))

\* C14: when the receive loop has ended by disconnection, the files are the
\* complete rounds only; the batches of the unfinished round sit in the
\* accumulator and in no file, and nothing is written afterwards.
C14_IncompleteRoundNotWritten ==
    /\ [](aggregator = "done" =>
            /\ Len(written) = Len(received) \div num_threads
            /\ Len(Leftover) = current_threads
            /\ current_results = Concat([i \in 1..Len(Leftover) |-> Leftover[i].results])
            /\ \A k \in 1..Len(written) : written[k].records = RoundRecords(k))
    /\ [][aggregator # "recv" => (written' = written /\ dir' = dir)]_vars

C14_Witness ==
    /\ aggregator = "done"
    /\ current_threads > 0
    /\ current_results # <<>>

\* C18: a batch without records can be sent, counts as one contribution when
\* received, and a round that closes on it (even with no record at all)
\* creates the file of the current index and increments the index.
C18_EmptyBatchCounts ==
    /\ [](\A w \in Workers :
            (ProcessAlive /\ worker[w] = "running" /\ WithinSends /\ results[w] = <<>>)
                => ENABLED WorkerSend(w))
    /\ [](\A k \in 1..Len(written) :
            written[k].records = <<>> => BinEntry(written[k].index) \in dir)
    /\ [][(/\ Len(received') = Len(received) + 1
           /\ received'[Len(received')].results = <<>>
           /\ aggregator' = "recv") =>
            /\ current_threads' = (current_threads + 1) % num_threads
            /\ current_threads + 1 = num_threads =>
                  /\ num_iters' = num_iters + 1
                  /\ BinEntry(num_iters) \in dir'
                  /\ written' = Append(written, [index |-> num_iters,
                                                 records |-> current_results])]_vars

C18_Witness ==
    /\ num_threads = 2
    /\ Len(written) = 2
    /\ written[1].records = <<>>
    /\ written[2].records # <<>>

AllEnded == \A w \in Workers : worker[w] = "panicked"

\* C19: once every worker has ended, no batch is added to the channel, the
\* aggregator can receive each pending batch, and with the channel empty its
\* loop can only end (main holds no sender of its own).
C19_LoopEndsAfterWorkers ==
    /\ []((AllEnded /\ aggregator = "recv") =>
            IF chan # <<>> THEN ENABLED Receive ELSE ENABLED Disconnected)
    /\ [][AllEnded =>
            /\ Len(chan') <= Len(chan)
            /\ (aggregator = "recv" /\ chan = <<>>) => aggregator' = "done"]_vars

C19_Witness ==
    /\ aggregator = "done"
    /\ AllEnded
    /\ Len(received) >= 3

\* The last do_random call is over.
CallEnded == simPc # "control" /\ simEnd # "start"

\* C16 as stated: every call ends, after at most 3601 ticks, with a record or
\* with None.
C16_EndsWithRecordOrNone ==
    /\ [](num_steps <= STEP_CAP + 1)
    /\ [](CallEnded => simEnd \in {"converged", "cap"})
    /\ (simPc = "control") ~> (simPc # "control")

\* C16 amended: every call ends, after at most 3601 ticks, with a record,
\* with None, or with the panic of a rejected setter.
C16_CallTerminates ==
    /\ [](num_steps <= STEP_CAP + 1)
    /\ [](CallEnded => simEnd \in {"converged", "cap", "panic"})
    /\ [](simEnd = "panic" => simPc = "panicked")
    /\ (simPc = "control") ~> (simPc # "control")

C16_Witness ==
    /\ CallEnded
    /\ simEnd = "converged"
    /\ num_steps = STEP_CAP + 1

\* Records of all files, in write order; records of the first m batches
\* received, in receive order.
AllWritten == Concat([k \in 1..Len(written) |-> written[k].records])
AllReceived(m) == Concat([i \in 1..m |-> received[i].results])

\* The i-th batch has been sent; received; written.
SentUpTo(i) == Len(received) + Len(chan) >= i
ReceivedUpTo(i) == Len(received) >= i
WrittenUpTo(i) == \E k \in 1..Len(written) : i <= k * num_threads

\* The i-th batch is received and belongs to a round that the explored run is
\* long enough to complete.
ReceivedInCompletableRound(i) ==
    /\ ReceivedUpTo(i)
    /\ \E r \in 1..MaxSends : r * num_threads <= MaxSends /\ i <= r * num_threads

\* C17: with all workers running, no I/O failure and fair scheduling, the
\* i-th batch sent is eventually received and eventually part of a written
\* file; the files and the accumulator together hold the received records
\* exactly once, in receive order.
C17_SentIsEventuallyWritten ==
    /\ \A i \in 1..MaxSends : SentUpTo(i) ~> ReceivedUpTo(i)
    /\ \A i \in 1..MaxSends : ReceivedInCompletableRound(i) ~> WrittenUpTo(i)
    /\ [](AllWritten \o current_results = AllReceived(Len(received)))
    /\ [](AllWritten = AllReceived(Len(written) * num_threads))

C17_Witness ==
    /\ num_threads = 2
    /\ Len(written) = 2
    /\ Len(AllWritten) = 2
    /\ \E w \in Workers : received[1].from = w /\ received[2].from = w

\* Decoder of the claim: four bytes, least significant first, as an f32.
FromLeBytes(b) ==
    F32(b[4] \div 128,
        (b[4] % 128) * 2 + b[3] \div 128,
        (b[3] % 128) * 65536 + b[2] * 256 + b[1])

FloatAt(buf, k) == FromLeBytes(SubSeq(buf, 4 * k - 3, 4 * k))

\* Decoder of the claim: the i-th group of seven 32-bit values of the buffer.
DecodeResult(buf, i) ==
    LET base == 7 * (i - 1)
    IN  FullResult(FloatAt(buf, base + 1), FloatAt(buf, base + 2), FloatAt(buf, base + 3),
                   FloatAt(buf, base + 4), FloatAt(buf, base + 5), FloatAt(buf, base + 6),
                   FloatAt(buf, base + 7))

\* C13: the buffer of a round of N records has 28*N bytes, and read back as
\* groups of seven little-endian 32-bit values it gives the same records in
\* the same order.
C13_EncodingRoundTrip ==
    encPc = "encoded" =>
        /\ Len(encBytes) = 28 * Len(encRound)
        /\ \A j \in 1..Len(encBytes) : encBytes[j] \in 0..255
        /\ [i \in 1..Len(encRound) |-> DecodeResult(encBytes, i)] = encRound

C13_Witness ==
    /\ encPc = "encoded"
    /\ Len(encRound) = 3
    /\ encRound[1] # encRound[2]
    /\ encRound[1].initial_angular_velocity.x = F32One
    /\ Len(encBytes) = 84

\* A value of [-1, 1].
InUnit(x) == x.d > 0 /\ -x.d <= x.n /\ x.n <= x.d

\* C15: every pitch, yaw and roll command default_pd returns lies in [-1, 1].
C15_CommandsInRange ==
    pdPc = "returned" => \A k \in 1..3 : InUnit(pdControls[k])

====
